---- MODULE Spec2Model ----
(***************************************************************************)
(* WSDL -> OpenAPI conversion: WSDLParser (src/wsdl_parser.py) and         *)
(* SwaggerGenerator (src/swagger_generator.py).                            *)
(*                                                                         *)
(* Strings that come from the WSDL document are sequences of one-character *)
(* strings, so that split(':'), lower() and isdigit() are computed.        *)
(* So are the string literals of the code that meet them (type names,     *)
(* defaults).  Python dicts whose keys come from the document are          *)
(* sequences of <<key, value>> pairs in insertion order; dicts whose keys  *)
(* are literals of the code are records.                                   *)
(***************************************************************************)
EXTENDS Integers, Sequences, FiniteSets, TLC

VARIABLES
    namespaces,     \* WSDLParser.namespaces['tns'] of the parser instance
    wsdl_content,   \* the document handed to the last parse call
    wsdl_data,      \* what that parse call produced (service_info or the ValueError)
    swagger_spec,   \* SwaggerGenerator.generate(wsdl_data)
    json_text,      \* SwaggerGenerator.to_json(swagger_spec), as the JSON value written
    json_loaded,    \* json.loads(json_text)
    map_arg,        \* argument of a type-mapper call
    map_res,        \* its results
    ct_arg,         \* xsd:complexType handed to _parse_complex_type
    ct_res,         \* its result
    storage,        \* the artifact files in STORAGE_DIR, as <<file_id, extension>>
    metadata,       \* STORAGE_DIR/metadata.json: absent, truncated, or its list
    requests        \* the requests the application has received, each with its locals

vars == <<namespaces, wsdl_content, wsdl_data, swagger_spec, json_text, json_loaded,
          map_arg, map_res, ct_arg, ct_res, storage, metadata, requests>>

pipeline_vars == <<namespaces, wsdl_content, wsdl_data, swagger_spec, json_text, json_loaded>>
map_vars == <<map_arg, map_res>>
ct_vars == <<ct_arg, ct_res>>
app_vars == <<storage, metadata, requests>>

\* ------------------------------------------------------------------ values

\* Python's None where a str may stand: a one-element tuple no character sequence equals.
None == <<"None">>
\* Python's None where a dict may stand, and a variable that holds nothing yet.
Nothing == [nothing |-> TRUE]

Truthy(s) == s # None /\ s # <<>>

\* x or y
Or(x, y) == IF Truthy(x) THEN x ELSE y

\* ----------------------------------------------------------------- strings

UPPER == <<"A","B","C","D","E","F","G","H","I","J","K","L","M",
           "N","O","P","Q","R","S","T","U","V","W","X","Y","Z">>
LOWER == <<"a","b","c","d","e","f","g","h","i","j","k","l","m",
           "n","o","p","q","r","s","t","u","v","w","x","y","z">>
DIGITS == <<"0","1","2","3","4","5","6","7","8","9">>

LowerChar(c) ==
    IF \E i \in DOMAIN UPPER : UPPER[i] = c
    THEN LOWER[CHOOSE i \in DOMAIN UPPER : UPPER[i] = c]
    ELSE c
UpperChar(c) ==
    IF \E i \in DOMAIN LOWER : LOWER[i] = c
    THEN UPPER[CHOOSE i \in DOMAIN LOWER : LOWER[i] = c]
    ELSE c

\* str.lower()
Lower(s) == [i \in 1..Len(s) |-> LowerChar(s[i])]
\* str.upper(), used to build inputs only
Upper(s) == [i \in 1..Len(s) |-> UpperChar(s[i])]

\* str.find(c): the first index of c in s, 0 when there is none
Find(s, c) ==
    IF \E i \in 1..Len(s) : s[i] = c
    THEN CHOOSE i \in 1..Len(s) : s[i] = c /\ \A j \in 1..(i-1) : s[j] # c
    ELSE 0

Contains(s, c) == Find(s, c) # 0

\* s.split(c)[1], for s that contains c: the text between the first c and the next
SplitSecond(s, c) ==
    LET rest == SubSeq(s, Find(s, c) + 1, Len(s))
        j == Find(rest, c)
    IN  IF j = 0 THEN rest ELSE SubSeq(rest, 1, j - 1)

\* str.isdigit() on the characters of the model
IsDigitChar(c) == \E i \in DOMAIN DIGITS : DIGITS[i] = c
IsDigit(s) == Len(s) > 0 /\ \A i \in 1..Len(s) : IsDigitChar(s[i])

DigitValue(c) == (CHOOSE i \in DOMAIN DIGITS : DIGITS[i] = c) - 1

\* int(s) for a string of digits
RECURSIVE ToInt(_)
ToInt(s) ==
    IF Len(s) = 0 THEN 0
    ELSE 10 * ToInt(SubSeq(s, 1, Len(s) - 1)) + DigitValue(s[Len(s)])

\* ------------------------------------------------------------------- dicts

Keys(d) == {d[i][1] : i \in DOMAIN d}
HasKey(d, k) == \E i \in DOMAIN d : d[i][1] = k
Get(d, k) == d[CHOOSE i \in DOMAIN d : d[i][1] = k][2]
GetOr(d, k, default) == IF HasKey(d, k) THEN Get(d, k) ELSE default

\* d[k] = v: an existing key keeps its place and takes the new value
DictSet(d, k, v) ==
    IF HasKey(d, k)
    THEN [i \in DOMAIN d |-> IF d[i][1] = k THEN <<k, v>> ELSE d[i]]
    ELSE Append(d, <<k, v>>)

\* the dict built by inserting the pairs of a sequence in order
RECURSIVE DictOf(_)
DictOf(pairs) ==
    IF Len(pairs) = 0 THEN <<>>
    ELSE DictSet(DictOf(SubSeq(pairs, 1, Len(pairs) - 1)),
                 pairs[Len(pairs)][1], pairs[Len(pairs)][2])

\* ------------------------------------------------------------ string literals

s_string == <<"s","t","r","i","n","g">>
s_int == <<"i","n","t">>
s_integer == <<"i","n","t","e","g","e","r">>
s_long == <<"l","o","n","g">>
s_short == <<"s","h","o","r","t">>
s_byte == <<"b","y","t","e">>
s_double == <<"d","o","u","b","l","e">>
s_float == <<"f","l","o","a","t">>
s_decimal == <<"d","e","c","i","m","a","l">>
s_boolean == <<"b","o","o","l","e","a","n">>
s_date == <<"d","a","t","e">>
s_dateTime == <<"d","a","t","e","T","i","m","e">>
s_time == <<"t","i","m","e">>
s_base64Binary == <<"b","a","s","e","6","4","B","i","n","a","r","y">>
s_hexBinary == <<"h","e","x","B","i","n","a","r","y">>
s_anyURI == <<"a","n","y","U","R","I">>
s_xsd == <<"x","s","d">>
s_tns == <<"t","n","s">>
s_colon == <<":">>
s_object == <<"o","b","j","e","c","t">>
s_array == <<"a","r","r","a","y">>
s_number == <<"n","u","m","b","e","r">>
s_int32 == <<"i","n","t","3","2">>
s_int64 == <<"i","n","t","6","4">>
s_date_time == <<"d","a","t","e","-","t","i","m","e">>
s_binary == <<"b","i","n","a","r","y">>
s_uri == <<"u","r","i">>
s_null == <<"n","u","l","l">>
s_NoneText == <<"N","o","n","e">>
s_slash == <<"/">>
s_parameter == <<"p","a","r","a","m","e","t","e","r">>
s_result == <<"r","e","s","u","l","t">>
s_unbounded == <<"u","n","b","o","u","n","d","e","d">>
s_UnknownService == <<"U","n","k","n","o","w","n","S","e","r","v","i","c","e">>
s_NoDescription == <<"N","o"," ","d","e","s","c","r","i","p","t","i","o","n"," ","a","v","a","i","l","a","b","l","e">>
s_DefaultDescription == <<"S","O","A","P"," ","W","e","b"," ","S","e","r","v","i","c","e"," ","c","o","n","v","e","r","t","e","d"," ","f","r","o","m"," ","W","S","D","L">>
s_SoapOperation == <<"S","O","A","P"," ","o","p","e","r","a","t","i","o","n",":"," ">>
s_DefaultTransport == <<"h","t","t","p",":","/","/","s","c","h","e","m","a","s",".","x","m","l","s","o","a","p",".","o","r","g","/","s","o","a","p","/","h","t","t","p">>
s_document == <<"d","o","c","u","m","e","n","t">>
s_ExampleUrl == <<"h","t","t","p","s",":","/","/","e","x","a","m","p","l","e",".","c","o","m">>
s_SchemeSep == <<":","/","/">>

\* --------------------------------------------------------- scalar type mapper

\* type_mapping of SwaggerGenerator._map_type_to_openapi, keys as the code writes them
openapi_type_mapping == <<
    <<s_string,       [type |-> s_string]>>,
    <<s_int,          [type |-> s_integer, format |-> s_int32]>>,
    <<s_integer,      [type |-> s_integer]>>,
    <<s_long,         [type |-> s_integer, format |-> s_int64]>>,
    <<s_short,        [type |-> s_integer, format |-> s_int32]>>,
    <<s_byte,         [type |-> s_integer, format |-> s_int32]>>,
    <<s_double,       [type |-> s_number, format |-> s_double]>>,
    <<s_float,        [type |-> s_number, format |-> s_float]>>,
    <<s_decimal,      [type |-> s_number]>>,
    <<s_boolean,      [type |-> s_boolean]>>,
    <<s_date,         [type |-> s_string, format |-> s_date]>>,
    <<s_dateTime,     [type |-> s_string, format |-> s_date_time]>>,
    <<s_time,         [type |-> s_string, format |-> s_time]>>,
    <<s_base64Binary, [type |-> s_string, format |-> s_byte]>>,
    <<s_hexBinary,    [type |-> s_string, format |-> s_binary]>>,
    <<s_anyURI,       [type |-> s_string, format |-> s_uri]>> >>

\* SwaggerGenerator._map_type_to_openapi
map_type_to_openapi(wsdl_type) ==
    IF ~Truthy(wsdl_type) THEN [type |-> s_string]
    ELSE LET local == IF Contains(wsdl_type, ":") THEN SplitSecond(wsdl_type, ":")
                      ELSE wsdl_type
         IN  GetOr(openapi_type_mapping, Lower(local), [type |-> s_string])

\* type_mapping of WSDLParser._map_xsd_type
xsd_type_mapping == <<
    <<s_string, s_string>>, <<s_int, s_integer>>, <<s_integer, s_integer>>,
    <<s_long, s_integer>>, <<s_short, s_integer>>, <<s_byte, s_integer>>,
    <<s_double, s_number>>, <<s_float, s_number>>, <<s_decimal, s_number>>,
    <<s_boolean, s_boolean>>, <<s_date, s_string>>, <<s_dateTime, s_string>>,
    <<s_time, s_string>>, <<s_base64Binary, s_string>>, <<s_hexBinary, s_string>>,
    <<s_anyURI, s_string>> >>

\* WSDLParser._map_xsd_type
map_xsd_type(xsd_type) ==
    IF ~Truthy(xsd_type) THEN s_string
    ELSE LET local == IF Contains(xsd_type, ":") THEN SplitSecond(xsd_type, ":")
                      ELSE xsd_type
         IN  GetOr(xsd_type_mapping, Lower(local), s_string)

\* The XSD names of the code's tables, and names outside them.
CanonicalNames == Keys(openapi_type_mapping)
OtherNames == {<<>>, <<"f","o","o">>, <<"I","D">>, <<"i","n","t","s">>}

\* A name as written, lower-cased and upper-cased; bare, and behind a prefix.
Cased(n) == {n, Lower(n), Upper(n)}
Prefixed(n) == {n, s_xsd \o s_colon \o n, s_colon \o n, n \o s_colon,
                s_tns \o s_colon \o n \o s_colon \o s_string}
TypeInputs == UNION {Prefixed(c) : c \in UNION {Cased(n) : n \in CanonicalNames \cup OtherNames}}

\* ------------------------------------------------------------ the WSDL document
(***************************************************************************)
(* A document is the tree lxml builds, kept to what the parser's XPath     *)
(* queries read.  An attribute is None when the element does not carry it; *)
(* a field holding elements is the list the relative XPath query returns,  *)
(* in document order.                                                      *)
(*   document:  wellformed, targetNamespace, documentation (the text of    *)
(*              the wsdl:documentation children of the root), schemas,     *)
(*              messages, portTypes, bindings, services                    *)
(*   portType:  a list of operation elements                               *)
(*   operation: name, documentation, inputs, outputs, faults               *)
(*   input/output: message                                                 *)
(*   message:   name, parts;   part: name, element, type                   *)
(*   service:   name, documentation, ports                                 *)
(*   port:      name, binding, soap (soap:address elements), soap12        *)
(*   address:   location                                                   *)
(*   schema:    a list of nodes in document order, each a complexType      *)
(*              (name, elements), a simpleType (name, restrictions) or an  *)
(*              element (name, type, minOccurs, maxOccurs)                 *)
(***************************************************************************)

\* element.get(attr, default)
AttrOr(value, default) == IF value = None THEN default ELSE value

\* str.strip() of the blanks of the model
RECURSIVE Strip(_)
Strip(s) ==
    IF Len(s) = 0 THEN s
    ELSE IF Head(s) = " " THEN Strip(Tail(s))
    ELSE IF s[Len(s)] = " " THEN Strip(SubSeq(s, 1, Len(s) - 1))
    ELSE s

\* the concatenation of a list of lists
RECURSIVE Flatten(_)
Flatten(ss) == IF Len(ss) = 0 THEN <<>> ELSE Head(ss) \o Flatten(Tail(ss))

\* lxml builds the XPath context from the namespaces dict and raises TypeError
\* ("setting default namespace is not supported in XPath") for a prefix bound to
\* None or to the empty string; every query of the parser passes self.namespaces.
xpath_accepts(tns) == Truthy(tns)

\* WSDLParser._get_element_documentation over the list .//wsdl:documentation returns
get_element_documentation(docs) ==
    IF Len(docs) > 0 /\ Truthy(docs[1]) THEN Strip(docs[1]) ELSE None

\* //wsdl:documentation: every documentation element of the document, in document order
all_documentation(root) ==
    root.documentation
    \o Flatten([i \in DOMAIN root.portTypes |->
                    Flatten([j \in DOMAIN root.portTypes[i] |->
                        root.portTypes[i][j].documentation
                        \o Flatten([k \in DOMAIN root.portTypes[i][j].faults |->
                                       root.portTypes[i][j].faults[k].documentation])])])
    \o Flatten([i \in DOMAIN root.services |-> root.services[i].documentation])

\* WSDLParser._get_service_name
get_service_name(root) ==
    IF Len(root.services) > 0 THEN AttrOr(root.services[1].name, s_UnknownService)
    ELSE s_UnknownService

\* WSDLParser._get_service_description
get_service_description(root) ==
    LET docs == all_documentation(root)
    IN  IF Len(docs) > 0 THEN Or(docs[1], s_NoDescription) ELSE s_DefaultDescription

\* WSDLParser._parse_message
parse_message(message) ==
    [name |-> message.name,
     parts |-> [i \in DOMAIN message.parts |->
                   [name |-> message.parts[i].name,
                    element |-> message.parts[i].element,
                    type |-> message.parts[i].type]]]

\* //wsdl:message[@name="msg_name"]: the message elements of that name, in document order
messages_named(root, msg_name) ==
    SelectSeq(root.messages, LAMBDA m : m.name = msg_name)

\* WSDLParser._extract_message_info, msg_elements being the operation's input or
\* output elements
extract_message_info(root, msg_elements) ==
    IF Len(msg_elements) = 0 THEN Nothing
    ELSE LET attr == msg_elements[1].message
             msg_name == IF Contains(attr, ":") THEN SplitSecond(attr, ":") ELSE attr
             messages == messages_named(root, msg_name)
         IN  IF Truthy(attr) /\ Len(messages) > 0 THEN parse_message(messages[1])
             ELSE Nothing

\* WSDLParser._extract_faults
extract_faults(operation) ==
    [i \in DOMAIN operation.faults |->
        [name |-> operation.faults[i].name,
         message |-> operation.faults[i].message,
         documentation |-> get_element_documentation(operation.faults[i].documentation)]]

\* the dict _extract_operations builds for one operation element
operation_info(root, op) ==
    [name |-> op.name,
     documentation |-> get_element_documentation(
                           op.documentation
                           \o Flatten([k \in DOMAIN op.faults |-> op.faults[k].documentation])),
     input |-> extract_message_info(root, op.inputs),
     output |-> extract_message_info(root, op.outputs),
     faults |-> extract_faults(op)]

\* WSDLParser._extract_operations
extract_operations(root) ==
    LET ops == Flatten(root.portTypes)
    IN  [i \in DOMAIN ops |-> operation_info(root, ops[i])]


\* ---------------------------------------------------------------- type catalog

\* 'required' of one property: min_occurs != '0'
IsRequired(min_occurs) == min_occurs # <<"0">>

\* IsArray with the comparison int(max_occurs) >= 1
IsArray_from_one(max_occurs) ==
    max_occurs = s_unbounded \/ (IsDigit(max_occurs) /\ ToInt(max_occurs) >= 1)

\* 'array' of one property:
\* max_occurs == 'unbounded' or (max_occurs.isdigit() and int(max_occurs) > 1)
IsArray(max_occurs) ==
    max_occurs = s_unbounded \/ (IsDigit(max_occurs) /\ ToInt(max_occurs) > 1)

\* the entry _parse_complex_type records for one xsd:element of a sequence
property_info(elem) ==
    [type |-> map_xsd_type(AttrOr(elem.type, s_string)),
     required |-> IsRequired(AttrOr(elem.minOccurs, <<"1">>)),
     array |-> IsArray(AttrOr(elem.maxOccurs, <<"1">>))]

\* the properties dict after the elements of the list, in order
RECURSIVE complex_type_properties(_)
complex_type_properties(elements) ==
    IF Len(elements) = 0 THEN <<>>
    ELSE LET elem == elements[Len(elements)]
         IN  DictSet(complex_type_properties(SubSeq(elements, 1, Len(elements) - 1)),
                     elem.name, property_info(elem))

\* WSDLParser._parse_complex_type
parse_complex_type(complex_type) ==
    [type |-> s_object, properties |-> complex_type_properties(complex_type.elements)]

\* WSDLParser._parse_simple_type
parse_simple_type(simple_type) ==
    IF Len(simple_type.restrictions) > 0
    THEN LET base_type == AttrOr(simple_type.restrictions[1].base, s_string)
         IN  [type |-> map_xsd_type(base_type), base |-> base_type]
    ELSE [type |-> s_string]

\* WSDLParser._parse_element
parse_element(element) ==
    LET elem_type == AttrOr(element.type, s_string)
    IN  [type |-> map_xsd_type(elem_type), xml_type |-> elem_type]

\* .//xsd:complexType, .//xsd:simpleType and .//xsd:element of one schema, in
\* document order: the elements of a complex type's sequence are xsd:element
\* descendants of the schema too
schema_complex_types(schema) == SelectSeq(schema, LAMBDA n : n.kind = "complexType")
schema_simple_types(schema) == SelectSeq(schema, LAMBDA n : n.kind = "simpleType")
schema_elements(schema) ==
    Flatten([i \in DOMAIN schema |->
                IF schema[i].kind = "element" THEN <<schema[i]>>
                ELSE IF schema[i].kind = "complexType" THEN schema[i].elements
                ELSE <<>>])

\* the catalog entry each node of the three loops of _extract_types writes
type_entries(schema) ==
    LET cts == schema_complex_types(schema)
        sts == schema_simple_types(schema)
        els == schema_elements(schema)
    IN  [i \in DOMAIN cts |-> <<cts[i].name, parse_complex_type(cts[i])>>]
        \o [i \in DOMAIN sts |-> <<sts[i].name, parse_simple_type(sts[i])>>]
        \o [i \in DOMAIN els |-> <<els[i].name, parse_element(els[i])>>]

\* WSDLParser._extract_types: the entries with a name, inserted schema by schema
extract_types(root) ==
    DictOf(SelectSeq(Flatten([i \in DOMAIN root.schemas |-> type_entries(root.schemas[i])]),
                     LAMBDA e : Truthy(e[1])))

\* ------------------------------------------------------- bindings and services

\* WSDLParser._get_soap_transport
get_soap_transport(binding) ==
    IF Len(binding.soap) > 0 THEN AttrOr(binding.soap[1].transport, s_DefaultTransport)
    ELSE s_DefaultTransport

\* WSDLParser._get_soap_style
get_soap_style(binding) ==
    IF Len(binding.soap) > 0 THEN AttrOr(binding.soap[1].style, s_document)
    ELSE s_document

\* WSDLParser._extract_binding_operations
extract_binding_operations(binding) ==
    [i \in DOMAIN binding.operations |->
        [name |-> binding.operations[i].name,
         soap_action |-> IF Len(binding.operations[i].soap) > 0
                         THEN AttrOr(binding.operations[i].soap[1].soapAction, <<>>)
                         ELSE <<>>]]

\* WSDLParser._extract_bindings
extract_bindings(root) ==
    [i \in DOMAIN root.bindings |->
        [name |-> root.bindings[i].name,
         type |-> root.bindings[i].type,
         transport |-> get_soap_transport(root.bindings[i]),
         style |-> get_soap_style(root.bindings[i]),
         operations |-> extract_binding_operations(root.bindings[i])]]

\* the location _extract_services gives one port:
\* addresses = soap:address elements, or the soap12:address elements when there are none;
\* addresses[0].get('location') if addresses else ''
port_location(port) ==
    LET addresses == IF Len(port.soap) = 0 THEN port.soap12 ELSE port.soap
    IN  IF Len(addresses) > 0 THEN addresses[1].location ELSE <<>>

\* WSDLParser._extract_services
extract_services(root) ==
    [i \in DOMAIN root.services |->
        [name |-> root.services[i].name,
         ports |-> [j \in DOMAIN root.services[i].ports |->
                       [name |-> root.services[i].ports[j].name,
                        binding |-> root.services[i].ports[j].binding,
                        location |-> port_location(root.services[i].ports[j])]],
         documentation |-> get_element_documentation(root.services[i].documentation)]]

\* ------------------------------------------------------------------- parse

\* the service_info dict parse returns
service_info(root) ==
    [status |-> "ok",
     name |-> get_service_name(root),
     description |-> get_service_description(root),
     target_namespace |-> root.targetNamespace,
     operations |-> extract_operations(root),
     types |-> extract_types(root),
     bindings |-> extract_bindings(root),
     services |-> extract_services(root)]

\* self.namespaces['tns'] after the "Update target namespace" step
tns_after(tns, root) ==
    IF root.wellformed /\ Truthy(root.targetNamespace) THEN root.targetNamespace ELSE tns

\* What parse returns or raises for a document, on a parser whose tns binding is tns:
\* etree.fromstring raises XMLSyntaxError for malformed XML; the first XPath query
\* raises TypeError while tns is unbound; both leave as ValueError.
parse_outcome(tns, root) ==
    IF ~root.wellformed THEN [status |-> "error", error |-> "Invalid XML syntax"]
    ELSE IF ~xpath_accepts(tns_after(tns, root))
    THEN [status |-> "error", error |-> "Failed to parse WSDL"]
    ELSE service_info(root)


\* ------------------------------------------------------------- the generator

\* an f-string's rendering of a value that is a str or None
Fmt(x) == IF x = None THEN s_NoneText ELSE x

IsLetter(c) == (\E i \in DOMAIN UPPER : UPPER[i] = c) \/ (\E i \in DOMAIN LOWER : LOWER[i] = c)
IsSchemeChar(c) == IsLetter(c) \/ IsDigitChar(c) \/ c \in {"+", "-", "."}

\* the first index of s at or after from that holds one of the characters, Len(s)+1
\* when none does
RECURSIVE FindAny(_, _, _)
FindAny(s, chars, from) ==
    IF from > Len(s) THEN Len(s) + 1
    ELSE IF s[from] \in chars THEN from
    ELSE FindAny(s, chars, from + 1)

\* urllib.parse.urlparse(url), its scheme and netloc: the scheme is the text before
\* the first ':' when that text starts with a letter and holds scheme characters
\* only, lower-cased; the netloc is what follows a '//' up to the next '/', '?' or '#'
urlparse(url) ==
    LET i == Find(url, ":")
        has_scheme == /\ i > 1
                      /\ IsLetter(url[1])
                      /\ \A j \in 1..(i - 1) : IsSchemeChar(url[j])
        scheme == IF has_scheme THEN Lower(SubSeq(url, 1, i - 1)) ELSE <<>>
        rest == IF has_scheme THEN SubSeq(url, i + 1, Len(url)) ELSE url
        has_netloc == Len(rest) >= 2 /\ rest[1] = "/" /\ rest[2] = "/"
        netloc == IF has_netloc
                  THEN SubSeq(rest, 3, FindAny(rest, {"/", "?", "#"}, 3) - 1)
                  ELSE <<>>
    IN  [scheme |-> scheme, netloc |-> netloc]

\* the locations _extract_base_url visits: every port of every service, in order
port_locations(services) ==
    Flatten([i \in DOMAIN services |->
                [j \in DOMAIN services[i].ports |-> services[i].ports[j].location]])

\* whether _extract_base_url returns at a location
is_absolute(location) ==
    /\ Truthy(location)
    /\ Truthy(urlparse(location).scheme)
    /\ Truthy(urlparse(location).netloc)

\* SwaggerGenerator._extract_base_url
extract_base_url(services) ==
    LET absolute == SelectSeq(port_locations(services), is_absolute)
    IN  IF Len(absolute) > 0
        THEN urlparse(absolute[1]).scheme \o s_SchemeSep \o urlparse(absolute[1]).netloc
        ELSE s_ExampleUrl

\* part.get('type') or part.get('element', 'string'): a part dict always holds the
\* key 'element', so the default is never taken
part_type(part) == Or(part.type, part.element)

\* part.get('name', 'parameter'), part.get('name', 'result'): a part dict always
\* holds the key 'name', so the default is never taken
part_name(part, default) == part.name

\* the properties dict the loop over the parts builds
RECURSIVE part_properties(_, _)
part_properties(parts, default) ==
    IF Len(parts) = 0 THEN <<>>
    ELSE LET part == parts[Len(parts)]
         IN  DictSet(part_properties(SubSeq(parts, 1, Len(parts) - 1), default),
                     part_name(part, default), map_type_to_openapi(part_type(part)))

\* SwaggerGenerator._generate_input_schema
generate_input_schema(input_msg) ==
    IF input_msg = Nothing \/ Len(input_msg.parts) = 0 THEN [type |-> s_object]
    ELSE [type |-> s_object,
          properties |-> part_properties(input_msg.parts, s_parameter),
          required |-> [i \in DOMAIN input_msg.parts |->
                           part_name(input_msg.parts[i], s_parameter)]]

\* _generate_output_schema listing its properties as required, as the input schema does
generate_output_schema_required(output_msg) == generate_input_schema(output_msg)

\* SwaggerGenerator._generate_output_schema
generate_output_schema(output_msg) ==
    IF output_msg = Nothing \/ Len(output_msg.parts) = 0 THEN [type |-> s_object]
    ELSE [type |-> s_object,
          properties |-> part_properties(output_msg.parts, s_result)]

\* SwaggerGenerator._generate_soap_example: the template and the name it interpolates
generate_soap_example(operation, msg_type) ==
    [template |-> msg_type, op_name |-> Fmt(operation.name)]

xml_content(example) == [schema |-> [type |-> s_string, example |-> example]]

\* the request content map of _generate_operation_spec
request_content(operation) ==
    LET xml == xml_content(generate_soap_example(operation, "request"))
        base == ("text/xml" :> xml) @@ ("application/soap+xml" :> xml)
    IN  IF operation.input # Nothing
        THEN base @@ ("application/json" :> [schema |-> generate_input_schema(operation.input)])
        ELSE base

\* the content map of responses["200"]
response_content(operation) ==
    LET base == ("text/xml" :> xml_content(generate_soap_example(operation, "response")))
    IN  IF operation.output # Nothing
        THEN base @@ ("application/json" :> [schema |-> generate_output_schema(operation.output)])
        ELSE base

\* SwaggerGenerator._generate_operation_spec
generate_operation_spec(operation) ==
    [post |->
        [tags |-> <<"SOAP Operations">>,
         summary |-> operation.name,
         description |-> Or(operation.documentation, s_SoapOperation \o Fmt(operation.name)),
         operationId |-> operation.name,
         requestBody |-> [description |-> "SOAP request body",
                          required |-> TRUE,
                          content |-> request_content(operation)],
         responses |-> ("200" :> [description |-> "Successful SOAP response",
                                  content |-> response_content(operation)])
                       @@ ("500" :> [description |-> "SOAP Fault",
                                     content |-> ("text/xml" :> xml_content([template |-> "fault"]))]),
         parameters |-> <<"SOAPAction", "Content-Type">>]]

\* generate_paths keeping the first PathItem written under a key
RECURSIVE generate_paths_first_wins(_)
generate_paths_first_wins(operations) ==
    IF Len(operations) = 0 THEN <<>>
    ELSE LET operation == operations[Len(operations)]
             before == generate_paths_first_wins(SubSeq(operations, 1, Len(operations) - 1))
         IN  IF HasKey(before, s_slash \o Fmt(operation.name)) THEN before
             ELSE Append(before, <<s_slash \o Fmt(operation.name),
                                   generate_operation_spec(operation)>>)

\* the paths dict after the loop of generate over the operations
RECURSIVE generate_paths(_)
generate_paths(operations) ==
    IF Len(operations) = 0 THEN <<>>
    ELSE LET operation == operations[Len(operations)]
         IN  DictSet(generate_paths(SubSeq(operations, 1, Len(operations) - 1)),
                     s_slash \o Fmt(operation.name), generate_operation_spec(operation))

\* the schema _generate_schemas emits for one property of an object type
property_schema(prop_def) ==
    IF prop_def.array THEN [type |-> s_array, items |-> [type |-> prop_def.type]]
    ELSE [type |-> prop_def.type]

\* the schema _generate_schemas emits for one catalog entry
type_schema(type_def) ==
    IF type_def.type = s_object
    THEN LET props == type_def.properties
             required == SelectSeq([i \in DOMAIN props |-> props[i]],
                                   LAMBDA e : e[2].required)
             schema == [type |-> s_object,
                        properties |-> [i \in DOMAIN props |->
                                           <<props[i][1], property_schema(props[i][2])>>]]
         IN  IF Len(required) > 0
             THEN schema @@ [required |-> [i \in DOMAIN required |-> required[i][1]]]
             ELSE schema
    ELSE map_type_to_openapi(type_def.type)

\* SwaggerGenerator._generate_schemas
generate_schemas(types) == [i \in DOMAIN types |-> <<types[i][1], type_schema(types[i][2])>>]

\* SwaggerGenerator.generate
generate(data) ==
    LET base_url == extract_base_url(data.services)
    IN  [openapi |-> "3.0.0",
         info |-> [title |-> data.name,
                   description |-> data.description,
                   version |-> "1.0.0",
                   contact |-> [name |-> "API Support"]],
         servers |-> IF Truthy(base_url)
                     THEN <<[url |-> base_url, description |-> "SOAP Service Endpoint"]>>
                     ELSE <<>>,
         paths |-> generate_paths(data.operations),
         components |-> [schemas |-> generate_schemas(data.types),
                         securitySchemes |-> <<>>],
         tags |-> <<[name |-> "SOAP Operations",
                     description |-> "SOAP web service operations"]>>]


\* ------------------------------------------------------------------ JSON
(***************************************************************************)
(* to_json is json.dumps: the text it writes is kept as the JSON value the *)
(* text spells, an object being the list of its members as written.  A     *)
(* dict key that is None is written as the member name "null", a None      *)
(* value as the literal null.  json.loads builds each object by inserting  *)
(* its members in order (a repeated name keeps its last value) and reads   *)
(* the literal null as None.  Only the places of a generated document that *)
(* can hold a key or value from the WSDL are rewritten.                    *)
(***************************************************************************)

\* the JSON literal null
JNull == <<"null">>

dumps_value(v) == IF v = None THEN JNull ELSE v
dumps_key(k) == IF k = None THEN s_null ELSE k
loads_value(v) == IF v = JNull THEN None ELSE v

dumps_schema(s) ==
    [f \in DOMAIN s |->
        IF f = "properties"
        THEN [i \in DOMAIN s.properties |->
                 <<dumps_key(s.properties[i][1]), s.properties[i][2]>>]
        ELSE IF f = "required"
        THEN [i \in DOMAIN s.required |-> dumps_value(s.required[i])]
        ELSE s[f]]

loads_schema(s) ==
    [f \in DOMAIN s |->
        IF f = "properties" THEN DictOf(s.properties)
        ELSE IF f = "required"
        THEN [i \in DOMAIN s.required |-> loads_value(s.required[i])]
        ELSE s[f]]

dumps_content(c) == [k \in DOMAIN c |-> [schema |-> dumps_schema(c[k].schema)]]
loads_content(c) == [k \in DOMAIN c |-> [schema |-> loads_schema(c[k].schema)]]

dumps_path_item(item) ==
    [post |-> [f \in DOMAIN item.post |->
        IF f \in {"summary", "operationId"} THEN dumps_value(item.post[f])
        ELSE IF f = "requestBody"
        THEN [item.post.requestBody EXCEPT !.content = dumps_content(@)]
        ELSE IF f = "responses"
        THEN [k \in DOMAIN item.post.responses |->
                 [item.post.responses[k] EXCEPT !.content = dumps_content(@)]]
        ELSE item.post[f]]]

loads_path_item(item) ==
    [post |-> [f \in DOMAIN item.post |->
        IF f \in {"summary", "operationId"} THEN loads_value(item.post[f])
        ELSE IF f = "requestBody"
        THEN [item.post.requestBody EXCEPT !.content = loads_content(@)]
        ELSE IF f = "responses"
        THEN [k \in DOMAIN item.post.responses |->
                 [item.post.responses[k] EXCEPT !.content = loads_content(@)]]
        ELSE item.post[f]]]

\* SwaggerGenerator.to_json
to_json(spec) ==
    [spec EXCEPT
        !.paths = [i \in DOMAIN @ |-> <<dumps_key(@[i][1]), dumps_path_item(@[i][2])>>],
        !.components.schemas =
            [i \in DOMAIN @ |-> <<dumps_key(@[i][1]), dumps_schema(@[i][2])>>]]

\* json.loads
json_loads(text) ==
    [text EXCEPT
        !.paths = DictOf([i \in DOMAIN @ |-> <<@[i][1], loads_path_item(@[i][2])>>]),
        !.components.schemas =
            DictOf([i \in DOMAIN @ |-> <<@[i][1], loads_schema(@[i][2])>>])]

\* ------------------------------------------------------------ bounded inputs

MaxOps == 2
MaxParts == 2
MaxPorts == 2
MaxNodes == 2
MaxElems == 2
MaxDocs == 2

SeqsUpTo(S, n) == UNION {[1..k -> S] : k \in 0..n}

\* a list as one group, or cut in two at any place
Splits(s) == {<<s>>} \cup {<<SubSeq(s, 1, k), SubSeq(s, k + 1, Len(s))>> : k \in 0..Len(s)}

s_urn_a == <<"u","r","n",":","a">>
s_M1 == <<"M","1">>
s_M2 == <<"M","2">>
s_X == <<"X">>
s_id == <<"i","d">>
Q(prefix, local) == prefix \o s_colon \o local

Part(name, element, type) == [name |-> name, element |-> element, type |-> type]

PartElements ==
    {Part(s_id, None, Q(s_xsd, s_int)),
     Part(None, None, Q(s_xsd, s_dateTime)),
     Part(s_null, Q(s_tns, s_boolean), None),
     Part(s_id, None, None),
     Part(<<"x">>, Q(s_xsd, s_long), <<>>)}

\* the messages of the documents that vary their operations; two share a name
Messages0 ==
    <<[name |-> s_M1, parts |-> <<Part(s_id, None, Q(s_xsd, s_int))>>],
      [name |-> s_M2, parts |-> <<>>],
      [name |-> s_M1, parts |-> <<Part(None, None, None)>>]>>

Op(name, documentation, inputs, outputs, faults) ==
    [name |-> name, documentation |-> documentation, inputs |-> inputs,
     outputs |-> outputs, faults |-> faults]
Ref(message) == <<[message |-> message]>>

OpElements ==
    {Op(<<"A">>, <<>>, Ref(Q(s_tns, s_M1)), Ref(Q(s_tns, s_M2)), <<>>),
     Op(<<"A">>, << <<" ","d"," ">> >>, Ref(Q(s_tns, s_X)), <<>>, <<>>),
     Op(<<"B">>, <<>>, Ref(None), Ref(s_M1), <<>>),
     Op(None, <<>>, <<>>, Ref(s_X),
        <<[name |-> <<"F">>, message |-> Q(s_tns, s_M2), documentation |-> <<None>>]>>),
     Op(s_NoneText, <<>>, Ref(s_M2), Ref(Q(s_tns, s_M1)), <<>>)}

Address(location) == <<[location |-> location]>>
Port(soap, soap12) ==
    [name |-> <<"P">>, binding |-> Q(s_tns, <<"B">>), soap |-> soap, soap12 |-> soap12]

s_http_h_p == <<"h","t","t","p",":","/","/","h","/","p">>
s_https_g == <<"H","T","T","P","S",":","/","/","g",":","8","/","q","?","x">>
s_rel == <<"/","s","v","c","/","p">>
s_nohost == <<"h","t","t","p",":","/","p">>

PortElements ==
    {Port(Address(s_http_h_p), <<>>),
     Port(<<>>, Address(s_https_g)),
     Port(Address(s_rel), Address(s_http_h_p)),
     Port(<<>>, <<>>),
     Port(Address(None), Address(s_http_h_p)),
     Port(Address(s_nohost), <<>>)}

Elem(name, type, minOccurs, maxOccurs) ==
    [kind |-> "element", name |-> name, type |-> type,
     minOccurs |-> minOccurs, maxOccurs |-> maxOccurs]
ComplexType(name, elements) == [kind |-> "complexType", name |-> name, elements |-> elements]
SimpleType(name, restrictions) ==
    [kind |-> "simpleType", name |-> name, restrictions |-> restrictions]

NodeElements ==
    {ComplexType(<<"T">>, <<Elem(<<"a">>, Q(s_xsd, s_int), <<"0">>, None),
                            Elem(None, None, None, s_unbounded)>>),
     SimpleType(<<"T">>, <<[base |-> Q(s_xsd, s_double)]>>),
     SimpleType(<<"U">>, <<>>),
     Elem(<<"T">>, Q(s_xsd, s_boolean), None, None),
     Elem(None, Q(s_xsd, s_int), None, None)}

Bindings0 ==
    <<[name |-> <<"B">>, type |-> Q(s_tns, <<"T">>),
       soap |-> <<[transport |-> None, style |-> <<"r","p","c">>]>>,
       operations |-> <<[name |-> <<"A">>, soap |-> <<[soapAction |-> None]>>],
                        [name |-> <<"B">>, soap |-> <<>>]>>]>>

Document(tns, schemas, messages, portTypes, bindings, services) ==
    [wellformed |-> TRUE, targetNamespace |-> tns, documentation |-> <<>>,
     schemas |-> schemas, messages |-> messages, portTypes |-> portTypes,
     bindings |-> bindings, services |-> services]

Service(i, ports) ==
    [name |-> IF i = 1 THEN <<"S">> ELSE None, documentation |-> <<>>, ports |-> ports]

\* documents that vary the operations of their port types
OpDocuments(tns) ==
    {Document(tns, <<>>, Messages0, pts, <<>>, <<>>) :
        pts \in UNION {Splits(ops) : ops \in SeqsUpTo(OpElements, MaxOps)}}

\* documents that vary the parts of the message of their one operation
PartDocuments(tns) ==
    {Document(tns, <<>>, <<[name |-> s_M1, parts |-> parts]>>,
              <<<<Op(<<"A">>, <<>>, Ref(Q(s_tns, s_M1)), Ref(Q(s_tns, s_M1)), <<>>)>>>>,
              <<>>, <<>>) :
        parts \in SeqsUpTo(PartElements, MaxParts)}

\* documents that vary the ports of their services
PortDocuments(tns) ==
    {Document(tns, <<>>, <<>>, <<>>, Bindings0,
              [i \in DOMAIN groups |-> Service(i, groups[i])]) :
        groups \in UNION {Splits(ports) : ports \in SeqsUpTo(PortElements, MaxPorts)}}

\* documents that vary the nodes of their schema
TypeDocuments(tns) ==
    {Document(tns, <<nodes>>, <<>>, <<>>, <<>>, <<>>) :
        nodes \in SeqsUpTo(NodeElements, MaxNodes)}

\* the text of a wsdl:documentation element: None for an element without text
DocTexts == {None, <<" ","d"," ">>, <<"d">>}

\* documents that vary their documentation elements: those under the root and the
\* one of the operation
DocDocuments(tns) ==
    {[Document(tns, <<>>, Messages0,
               <<<<Op(<<"A">>, opdocs, Ref(Q(s_tns, s_M1)), <<>>, <<>>)>>>>, <<>>, <<>>)
        EXCEPT !.documentation = docs] :
        docs \in SeqsUpTo(DocTexts, MaxDocs), opdocs \in SeqsUpTo({<<"o"," ">>}, 1)}

Malformed == [Document(s_urn_a, <<>>, <<>>, <<>>, <<>>, <<>>) EXCEPT !.wellformed = FALSE]

Documents ==
    UNION {OpDocuments(tns) \cup PartDocuments(tns) \cup PortDocuments(tns)
           \cup TypeDocuments(tns) \cup DocDocuments(tns) : tns \in {None, s_urn_a}}
    \cup {Malformed, Document(<<>>, <<>>, Messages0, <<>>, Bindings0, <<>>)}

MinOccursValues == {None, <<>>, <<"0">>, <<"1">>, <<"2">>, <<"0","0">>}
MaxOccursValues ==
    {None, <<>>, <<"0">>, <<"1">>, <<"2">>, <<"0","2">>, <<"1","0">>, s_unbounded,
     Upper(s_unbounded), <<"a","b","c">>, <<"+","2">>, <<"-","3">>, <<"2"," ">>}

\* complex types: a first element over every minOccurs and maxOccurs, then a few more
FirstElems ==
    {Elem(<<"a">>, type, lo, hi) :
        type \in {None, Q(s_xsd, s_int)}, lo \in MinOccursValues, hi \in MaxOccursValues}
MoreElems == {Elem(<<"a">>, None, <<"0">>, s_unbounded), Elem(<<"b">>, s_string, None, None)}
ComplexTypes ==
    {ComplexType(<<"T">>, <<e>> \o more) :
        e \in FirstElems, more \in SeqsUpTo(MoreElems, MaxElems - 1)}

\* ----------------------------------------------------------------- actions

PipelineIdle ==
    /\ wsdl_content = Nothing
    /\ wsdl_data = Nothing
    /\ swagger_spec = Nothing
    /\ json_text = Nothing
    /\ json_loaded = Nothing

MapIdle == map_arg = Nothing /\ map_res = Nothing
CtIdle == ct_arg = Nothing /\ ct_res = Nothing
\* an empty storage directory and no request received
AppIdle == storage = {} /\ metadata = Nothing /\ requests = <<>>

\* WSDLParser(): __init__ binds tns to None
Init ==
    /\ namespaces = None
    /\ PipelineIdle
    /\ MapIdle
    /\ CtIdle
    /\ AppIdle

\* a new parser instance
NewParser ==
    /\ wsdl_content = Nothing
    /\ namespaces # None
    /\ namespaces' = None
    /\ UNCHANGED <<wsdl_content, wsdl_data, swagger_spec, json_text, json_loaded>>
    /\ UNCHANGED <<map_vars, ct_vars, app_vars>>

\* parser.parse(wsdl_content) on the current instance
Parse(root) ==
    /\ wsdl_content = Nothing
    /\ wsdl_content' = root
    /\ namespaces' = tns_after(namespaces, root)
    /\ wsdl_data' = parse_outcome(namespaces, root)
    /\ UNCHANGED <<swagger_spec, json_text, json_loaded>>
    /\ UNCHANGED <<map_vars, ct_vars, app_vars>>

\* generator.generate(wsdl_data)
Generate ==
    /\ wsdl_data # Nothing
    /\ wsdl_data.status = "ok"
    /\ swagger_spec = Nothing
    /\ swagger_spec' = generate(wsdl_data)
    /\ UNCHANGED <<namespaces, wsdl_content, wsdl_data, json_text, json_loaded>>
    /\ UNCHANGED <<map_vars, ct_vars, app_vars>>

\* generator.to_json(swagger_spec)
ToJson ==
    /\ swagger_spec # Nothing
    /\ json_text = Nothing
    /\ json_text' = to_json(swagger_spec)
    /\ UNCHANGED <<namespaces, wsdl_content, wsdl_data, swagger_spec, json_loaded>>
    /\ UNCHANGED <<map_vars, ct_vars, app_vars>>

\* json.loads of the text written
JsonLoads ==
    /\ json_text # Nothing
    /\ json_loaded = Nothing
    /\ json_loaded' = json_loads(json_text)
    /\ UNCHANGED <<namespaces, wsdl_content, wsdl_data, swagger_spec, json_text>>
    /\ UNCHANGED <<map_vars, ct_vars, app_vars>>

\* the call has returned or raised; the parser instance stays
Return ==
    /\ wsdl_content # Nothing
    /\ \/ wsdl_data.status = "error"
       \/ json_loaded # Nothing
    /\ wsdl_content' = Nothing
    /\ wsdl_data' = Nothing
    /\ swagger_spec' = Nothing
    /\ json_text' = Nothing
    /\ json_loaded' = Nothing
    /\ UNCHANGED namespaces
    /\ UNCHANGED <<map_vars, ct_vars, app_vars>>

Next ==
    \/ NewParser
    \/ \E root \in Documents : Parse(root)
    \/ Generate
    \/ ToJson
    \/ JsonLoads
    \/ Return

Spec == Init /\ [][Next]_vars

\* ---- the scalar type mappers alone

MapInit ==
    /\ namespaces = None
    /\ PipelineIdle
    /\ CtIdle
    /\ AppIdle
    /\ map_arg \in TypeInputs
    /\ map_res = Nothing

\* one call of each mapper on the same argument
MapType ==
    /\ map_res = Nothing
    /\ map_res' = [openapi |-> map_type_to_openapi(map_arg), xsd |-> map_xsd_type(map_arg)]
    /\ UNCHANGED <<map_arg, pipeline_vars, ct_vars, app_vars>>

MapNext == MapType

SpecMap == MapInit /\ [][MapNext]_vars

\* ---- _parse_complex_type alone

CtInit ==
    /\ namespaces = None
    /\ PipelineIdle
    /\ MapIdle
    /\ AppIdle
    /\ ct_arg \in ComplexTypes
    /\ ct_res = Nothing

ParseComplexType ==
    /\ ct_res = Nothing
    /\ ct_res' = parse_complex_type(ct_arg)
    /\ UNCHANGED <<ct_arg, pipeline_vars, map_vars, app_vars>>

CtNext == ParseComplexType

SpecTypes == CtInit /\ [][CtNext]_vars


\* ------------------------------------------------------- the web application
(***************************************************************************)
(* app.py.  Each request runs in its own thread (the development server is *)
(* threaded), so the steps of save_converted_file and delete_file that     *)
(* touch the storage directory interleave.  A request keeps its locals in  *)
(* its record; pc is the statement it is about to run.  file_info keeps    *)
(* the id, name and operations_count of the code's dict.                   *)
(***************************************************************************)

MaxRequests == 3

\* request bodies that are the empty string
EmptyText == [empty |-> TRUE]
\* json.load found metadata.json between open(..., 'w') and json.dump
Truncated == [truncated |-> TRUE]

AppDocuments ==
    {Malformed,
     Document(None, <<>>, Messages0, <<>>, <<>>, <<>>),
     Document(s_urn_a, <<>>, Messages0,
              <<<<Op(<<"A">>, <<>>, Ref(Q(s_tns, s_M1)), Ref(Q(s_tns, s_M2)), <<>>)>>>>,
              <<>>, <<Service(1, <<>>)>>)}

\* what a POST /convert carries and what acquiring it gives: an uploaded file (its
\* bytes may not be UTF-8), a text field, or a URL (requests.get may raise)
ConvertInput(kind, raised, content) == [kind |-> kind, raised |-> raised, content |-> content]
ConvertInputs ==
    {ConvertInput("none", "", EmptyText),
     ConvertInput("wsdl_file", "UnicodeDecodeError", EmptyText),
     ConvertInput("wsdl_url", "RequestException", EmptyText)}
    \cup {ConvertInput(kind, "", content) :
            kind \in {"wsdl_file", "wsdl_url"}, content \in AppDocuments \cup {EmptyText}}
    \cup {ConvertInput("wsdl_text", "", content) : content \in AppDocuments}

\* str(uuid.uuid4())[:8] of the n-th request: an id no other request draws
uuid4(n) == n
\* an id no save has drawn
UnknownId == 0

\* the except clauses of convert_wsdl, in their order
convert_except_any(exception) ==
    [status |-> 500, error |-> "Conversion failed"]

convert_except(exception) ==
    IF exception = "RequestException"
    THEN [status |-> 400, error |-> "Failed to fetch WSDL from URL"]
    ELSE [status |-> 500, error |-> "Conversion failed"]

\* convert_wsdl up to the call of save_converted_file: the error response, or the
\* data handed to save_converted_file
convert_acquire(input) ==
    IF input.kind = "none"
    THEN [response |-> [status |-> 400, error |-> "No WSDL input provided"]]
    ELSE IF input.raised # ""
    THEN [response |-> convert_except(input.raised)]
    ELSE IF input.content = EmptyText
    THEN [response |-> [status |-> 400, error |-> "Empty WSDL content"]]
    ELSE LET data == parse_outcome(None, input.content)
         IN  IF data.status = "error"
             THEN [response |-> convert_except("ValueError")]
             ELSE [service_name |-> data.name, swagger_spec |-> generate(data)]

Request(kind, pc, input, file_id, file_info, files, response) ==
    [kind |-> kind, pc |-> pc, input |-> input, file_id |-> file_id,
     file_info |-> file_info, files |-> files, response |-> response]

\* the requests still running
Running == {r \in DOMAIN requests : requests[r].pc # "done"}
\* the saves that have completed
Saved == {requests[r].file_id : r \in {q \in DOMAIN requests :
            requests[q].kind = "convert" /\ requests[q].pc = "done"
            /\ requests[q].response.status = 200}}

\* json.load(metadata.json) where the file exists
metadata_load == metadata.files
\* files = [f for f in files if f['id'] != file_id]
without(files, file_id) == SelectSeq(files, LAMBDA f : f.id # file_id)

\* POST /convert arrives and runs up to save_converted_file
ConvertStart(input) ==
    /\ Len(requests) < MaxRequests
    /\ LET n == Len(requests) + 1
           got == convert_acquire(input)
       IN  requests' = Append(requests,
             IF "response" \in DOMAIN got
             THEN Request("convert", "done", input, UnknownId, Nothing, <<>>, got.response)
             ELSE Request("convert", "save_json", input, uuid4(n),
                          [id |-> uuid4(n), name |-> got.service_name,
                           operations_count |-> Len(got.swagger_spec.paths)],
                          <<>>, Nothing))
    /\ UNCHANGED <<storage, metadata>>
    /\ UNCHANGED <<pipeline_vars, map_vars, ct_vars>>

\* save_converted_file writes <file_id>.json, then .yaml, then .wsdl
SaveArtifact(r, ext, then) ==
    /\ requests[r].kind = "convert"
    /\ requests[r].pc = "save_" \o ext
    /\ storage' = storage \cup {<<requests[r].file_id, ext>>}
    /\ requests' = [requests EXCEPT ![r].pc = then]
    /\ UNCHANGED metadata
    /\ UNCHANGED <<pipeline_vars, map_vars, ct_vars>>

\* save_converted_file reads metadata.json, or starts from [] when it is absent
SaveRead(r) ==
    /\ requests[r].kind = "convert"
    /\ requests[r].pc = "read_metadata"
    /\ metadata # Truncated
    /\ requests' = [requests EXCEPT
         ![r].files = Append(IF metadata = Nothing THEN <<>> ELSE metadata_load,
                             requests[r].file_info),
         ![r].pc = "open_metadata"]
    /\ UNCHANGED <<storage, metadata>>
    /\ UNCHANGED <<pipeline_vars, map_vars, ct_vars>>

\* json.load raises on a truncated metadata.json; convert_wsdl answers the exception
SaveReadFails(r) ==
    /\ requests[r].kind = "convert"
    /\ requests[r].pc = "read_metadata"
    /\ metadata = Truncated
    /\ requests' = [requests EXCEPT ![r].response = convert_except("JSONDecodeError"),
                                    ![r].pc = "done"]
    /\ UNCHANGED <<storage, metadata>>
    /\ UNCHANGED <<pipeline_vars, map_vars, ct_vars>>

\* open(metadata_file, 'w') truncates the file
OpenMetadata(r) ==
    /\ requests[r].pc = "open_metadata"
    /\ metadata' = Truncated
    /\ requests' = [requests EXCEPT ![r].pc = "dump_metadata"]
    /\ UNCHANGED storage
    /\ UNCHANGED <<pipeline_vars, map_vars, ct_vars>>

\* json.dump(files, f) and, for a save, the success response
DumpMetadata(r) ==
    /\ requests[r].pc = "dump_metadata"
    /\ metadata' = [files |-> requests[r].files]
    /\ requests' = [requests EXCEPT
         ![r].pc = IF requests[r].kind = "convert" THEN "done" ELSE "remove_json",
         ![r].response = IF requests[r].kind = "convert"
                         THEN [status |-> 200, success |-> TRUE,
                               file_id |-> requests[r].file_id]
                         ELSE Nothing]
    /\ UNCHANGED storage
    /\ UNCHANGED <<pipeline_vars, map_vars, ct_vars>>

\* DELETE /api/files/<file_id> arrives, for an id no running save has drawn
DeleteStart(file_id) ==
    /\ Len(requests) < MaxRequests
    /\ file_id \in Saved \cup {UnknownId}
    /\ requests' = Append(requests,
         Request("delete", "exists", Nothing, file_id, Nothing, <<>>, Nothing))
    /\ UNCHANGED <<storage, metadata>>
    /\ UNCHANGED <<pipeline_vars, map_vars, ct_vars>>

\* delete_file without a metadata.json: 404
DeleteNotFound(r) ==
    /\ requests[r].pc = "exists"
    /\ metadata = Nothing
    /\ requests' = [requests EXCEPT ![r].response = [status |-> 404, error |-> "File not found"],
                                    ![r].pc = "done"]
    /\ UNCHANGED <<storage, metadata>>
    /\ UNCHANGED <<pipeline_vars, map_vars, ct_vars>>

\* delete_file reads metadata.json and drops the entries of file_id
DeleteRead(r) ==
    /\ requests[r].pc = "exists"
    /\ metadata \notin {Nothing, Truncated}
    /\ requests' = [requests EXCEPT ![r].files = without(metadata_load, requests[r].file_id),
                                    ![r].pc = "open_metadata"]
    /\ UNCHANGED <<storage, metadata>>
    /\ UNCHANGED <<pipeline_vars, map_vars, ct_vars>>

\* json.load raises on a truncated metadata.json; the request ends in a server error
DeleteReadFails(r) ==
    /\ requests[r].pc = "exists"
    /\ metadata = Truncated
    /\ requests' = [requests EXCEPT ![r].response = [status |-> 500, error |-> "Internal Server Error"],
                                    ![r].pc = "done"]
    /\ UNCHANGED <<storage, metadata>>
    /\ UNCHANGED <<pipeline_vars, map_vars, ct_vars>>

\* delete_file removes <file_id><ext> where it exists, .json, .yaml, .wsdl in turn
DeleteRemove(r, ext, then) ==
    /\ requests[r].kind = "delete"
    /\ requests[r].pc = "remove_" \o ext
    /\ storage' = storage \ {<<requests[r].file_id, ext>>}
    /\ requests' = [requests EXCEPT
         ![r].pc = then,
         ![r].response = IF then = "done" THEN [status |-> 200, success |-> TRUE]
                         ELSE Nothing]
    /\ UNCHANGED metadata
    /\ UNCHANGED <<pipeline_vars, map_vars, ct_vars>>

AppInit ==
    /\ namespaces = None
    /\ PipelineIdle
    /\ MapIdle
    /\ CtIdle
    /\ AppIdle

\* ---- requests served one after the other

SerialConvertStart(input) == Running = {} /\ ConvertStart(input)
SerialDeleteStart(file_id) == Running = {} /\ DeleteStart(file_id)

ConvertNext ==
    \/ \E input \in ConvertInputs : SerialConvertStart(input)
    \/ \E file_id \in 0..MaxRequests : SerialDeleteStart(file_id)
    \/ \E r \in DOMAIN requests : SaveArtifact(r, "json", "save_yaml")
    \/ \E r \in DOMAIN requests : SaveArtifact(r, "yaml", "save_wsdl")
    \/ \E r \in DOMAIN requests : SaveArtifact(r, "wsdl", "read_metadata")
    \/ \E r \in DOMAIN requests : SaveRead(r)
    \/ \E r \in DOMAIN requests : OpenMetadata(r)
    \/ \E r \in DOMAIN requests : DumpMetadata(r)
    \/ \E r \in DOMAIN requests : DeleteNotFound(r)
    \/ \E r \in DOMAIN requests : DeleteRead(r)
    \/ \E r \in DOMAIN requests : DeleteRemove(r, "json", "remove_yaml")
    \/ \E r \in DOMAIN requests : DeleteRemove(r, "yaml", "remove_wsdl")
    \/ \E r \in DOMAIN requests : DeleteRemove(r, "wsdl", "done")

SpecConvert == AppInit /\ [][ConvertNext]_vars

\* ---- requests served concurrently

StorageInputs == {input \in ConvertInputs : input.kind = "wsdl_text"}

StorageNext ==
    \/ \E input \in StorageInputs : ConvertStart(input)
    \/ \E file_id \in 0..MaxRequests : DeleteStart(file_id)
    \/ \E r \in DOMAIN requests : SaveArtifact(r, "json", "save_yaml")
    \/ \E r \in DOMAIN requests : SaveArtifact(r, "yaml", "save_wsdl")
    \/ \E r \in DOMAIN requests : SaveArtifact(r, "wsdl", "read_metadata")
    \/ \E r \in DOMAIN requests : SaveRead(r)
    \/ \E r \in DOMAIN requests : SaveReadFails(r)
    \/ \E r \in DOMAIN requests : OpenMetadata(r)
    \/ \E r \in DOMAIN requests : DumpMetadata(r)
    \/ \E r \in DOMAIN requests : DeleteNotFound(r)
    \/ \E r \in DOMAIN requests : DeleteRead(r)
    \/ \E r \in DOMAIN requests : DeleteReadFails(r)
    \/ \E r \in DOMAIN requests : DeleteRemove(r, "json", "remove_yaml")
    \/ \E r \in DOMAIN requests : DeleteRemove(r, "yaml", "remove_wsdl")
    \/ \E r \in DOMAIN requests : DeleteRemove(r, "wsdl", "done")

SpecStorage == AppInit /\ [][StorageNext]_vars


\* ------------------------------------------------------------------ claims

PathKey(name) == s_slash \o Fmt(name)

\* the operation elements of the document, port type after port type
OperationElements(root) == Flatten(root.portTypes)

\* the last operation of the list whose path key is key
LastWithKey(operations, key) ==
    CHOOSE j \in DOMAIN operations :
        /\ PathKey(operations[j].name) = key
        /\ \A k \in DOMAIN operations : k > j => PathKey(operations[k].name) # key

FirstWithKey(operations, key) ==
    CHOOSE j \in DOMAIN operations :
        /\ PathKey(operations[j].name) = key
        /\ \A k \in DOMAIN operations : k < j => PathKey(operations[k].name) # key

Generated == swagger_spec # Nothing
Parsed == wsdl_content # Nothing
ParsedOk == Parsed /\ wsdl_data.status = "ok"

\* C1: the descriptor lists every operation element of every port type in document
\* order, duplicates kept; the path map has at most one entry per operation, every
\* key is "/" + the name of an operation, the keys stand in the order in which the
\* operations first use them, and each key holds the PathItem built from the last
\* operation of that name.
C1_PathsLastWins ==
    Generated =>
        LET operations == wsdl_data.operations
            elements == OperationElements(wsdl_content)
            paths == swagger_spec.paths
        IN  /\ Len(operations) = Len(elements)
            /\ \A j \in DOMAIN operations : operations[j].name = elements[j].name
            /\ Len(paths) <= Len(operations)
            /\ \A i \in DOMAIN paths :
                   \E j \in DOMAIN operations : paths[i][1] = PathKey(operations[j].name)
            /\ \A i, k \in DOMAIN paths : i < k =>
                   /\ paths[i][1] # paths[k][1]
                   /\ FirstWithKey(operations, paths[i][1]) < FirstWithKey(operations, paths[k][1])
            /\ \A j \in DOMAIN operations :
                   /\ HasKey(paths, PathKey(operations[j].name))
                   /\ Get(paths, PathKey(operations[j].name)) =
                          generate_operation_spec(
                              operations[LastWithKey(operations, PathKey(operations[j].name))])

\* C1 witness: a generated document from two operations of one name, in different
\* port types, whose PathItems differ
C1_Witness ==
    /\ Generated
    /\ Len(wsdl_content.portTypes) = 2
    /\ Len(wsdl_content.portTypes[1]) = 1
    /\ Len(wsdl_data.operations) = 2
    /\ wsdl_data.operations[1].name = wsdl_data.operations[2].name
    /\ generate_operation_spec(wsdl_data.operations[1])
           # generate_operation_spec(wsdl_data.operations[2])
    /\ Len(swagger_spec.paths) = 1

\* C2: a well-formed document without targetNamespace, parsed by a parser whose tns
\* binding is as the constructor left it, yields a descriptor with no target
\* namespace and the service name and operations of the same document with a
\* targetNamespace added.
C2_ParsesWithoutTargetNamespace ==
    (Parsed /\ wsdl_content.wellformed /\ wsdl_content.targetNamespace = None
            /\ namespaces = None) =>
        LET with_tns == [wsdl_content EXCEPT !.targetNamespace = s_urn_a]
        IN  /\ wsdl_data.status = "ok"
            /\ wsdl_data.target_namespace = None
            /\ wsdl_data.name = parse_outcome(None, with_tns).name
            /\ wsdl_data.operations = parse_outcome(None, with_tns).operations

\* the url of the servers list as the specification gives it: scheme://host of the
\* first port location with a scheme and a host, no entry when there is none
ExpectedServerUrls(services) ==
    LET absolute == SelectSeq(port_locations(services), is_absolute)
    IN  IF Len(absolute) > 0
        THEN <<urlparse(absolute[1]).scheme \o s_SchemeSep \o urlparse(absolute[1]).netloc>>
        ELSE <<>>

\* C3: servers has one entry, scheme://host of the first absolute port location, and
\* is empty when no port location is an absolute URL.
C3_Servers ==
    Generated =>
        [i \in DOMAIN swagger_spec.servers |-> swagger_spec.servers[i].url]
            = ExpectedServerUrls(wsdl_data.services)

\* the pair the specification's table gives a type name: the namespace prefix
\* stripped, letter case ignored
DocumentedScalar(name) ==
    LET local == IF Contains(name, ":") THEN SplitSecond(name, ":") ELSE name
    IN  IF \E n \in CanonicalNames : Lower(n) = Lower(local)
        THEN Get(openapi_type_mapping,
                 CHOOSE n \in CanonicalNames : Lower(n) = Lower(local))
        ELSE [type |-> s_string]

\* C4: _map_type_to_openapi returns the documented pair for every canonical XSD name
\* in any letter case, prefixed or not, and {type: string} for every other string.
C4_MapScalar ==
    map_res # Nothing => map_res.openapi = DocumentedScalar(map_arg)

\* C5: the JSON written for a generated document reads back as a tree equal to the
\* document.  (Reading back keeps the order of the members, so the trees are equal
\* as Python dicts exactly when they are equal here.)
C5_JsonRoundTrip ==
    json_loaded # Nothing => json_loaded = swagger_spec

\* maxOccurs as a decimal numeral greater than 1: digits only, with a digit other
\* than 0 before the last place or a last digit other than 0 and 1
DecimalAboveOne(s) ==
    /\ IsDigit(s)
    /\ \E i \in 1..Len(s) : s[i] # "0" /\ (i < Len(s) \/ s[i] # "1")

\* C6: each property recorded for a complex type is required unless the element's
\* minOccurs is the string "0", and is an array exactly when its maxOccurs is
\* "unbounded" or a decimal numeral greater than 1 (an absent, empty, signed or
\* otherwise non-numeric maxOccurs, "0" and "1" give no array).  The property of a
\* name is the one of the last element of that name.
C6_Occurs ==
    ct_res # Nothing =>
        \A i \in DOMAIN ct_arg.elements :
            LET e == ct_arg.elements[i]
            IN  (\A j \in DOMAIN ct_arg.elements : j > i => ct_arg.elements[j].name # e.name)
                => /\ HasKey(ct_res.properties, e.name)
                   /\ Get(ct_res.properties, e.name).required = (e.minOccurs # <<"0">>)
                   /\ Get(ct_res.properties, e.name).array =
                          (e.maxOccurs = s_unbounded \/ DecimalAboveOne(e.maxOccurs))

\* C6 witness: a parsed complex type whose first element, minOccurs "0" and maxOccurs
\* "10", is recorded optional and an array beside a required scalar property
C6_Witness ==
    /\ ct_res # Nothing
    /\ Len(ct_arg.elements) = 2
    /\ ct_arg.elements[1].minOccurs = <<"0">>
    /\ ct_arg.elements[1].maxOccurs = <<"1","0">>
    /\ Len(ct_res.properties) = 2
    /\ ~ct_res.properties[1][2].required
    /\ ct_res.properties[1][2].array
    /\ ct_res.properties[2][2].required
    /\ ~ct_res.properties[2][2].array

\* the input schema the specification gives a list of parts: a part without a name
\* is the property "parameter"; the type is mapped from the type attribute, else
\* from the element attribute, else "string"
ExpectedInputSchema(parts) ==
    IF Len(parts) = 0 THEN [type |-> s_object]
    ELSE LET name(i) == AttrOr(parts[i].name, s_parameter)
         IN  [type |-> s_object,
              properties |-> DictOf([i \in DOMAIN parts |->
                                 <<name(i), map_type_to_openapi(
                                                Or(parts[i].type, Or(parts[i].element, s_string)))>>]),
              required |-> [i \in DOMAIN parts |-> name(i)]]

\* C7: the application/json request schema of every operation with an input message
\* is the expected input schema of the message's parts.
C7_InputSchema ==
    Generated =>
        \A i \in DOMAIN swagger_spec.paths :
            LET operation == wsdl_data.operations[
                                 LastWithKey(wsdl_data.operations, swagger_spec.paths[i][1])]
                content == swagger_spec.paths[i][2].post.requestBody.content
            IN  operation.input # Nothing =>
                    /\ "application/json" \in DOMAIN content
                    /\ content["application/json"].schema
                           = ExpectedInputSchema(operation.input.parts)

ExpectedLocation(port) ==
    IF Len(port.soap) > 0 THEN port.soap[1].location
    ELSE IF Len(port.soap12) > 0 THEN port.soap12[1].location
    ELSE <<>>

\* C9: every port's location is the expected one and is never None.
C9_PortLocation ==
    ParsedOk =>
        \A i \in DOMAIN wsdl_data.services :
            \A j \in DOMAIN wsdl_data.services[i].ports :
                /\ wsdl_data.services[i].ports[j].location
                       = ExpectedLocation(wsdl_content.services[i].ports[j])
                /\ wsdl_data.services[i].ports[j].location # None

\* an operation's input or output elements that name no message of the document,
\* or carry no message attribute
Unresolvable(root, msg_elements) ==
    /\ Len(msg_elements) > 0
    /\ LET attr == msg_elements[1].message
       IN  \/ attr = None
           \/ messages_named(root, IF Contains(attr, ":") THEN SplitSecond(attr, ":")
                                   ELSE attr) = <<>>

\* the descriptor entry of input or output elements that do name a message
Resolved(root, msg_elements) ==
    IF Len(msg_elements) = 0 \/ Unresolvable(root, msg_elements) THEN Nothing
    ELSE LET attr == msg_elements[1].message
         IN  parse_message(messages_named(root, IF Contains(attr, ":")
                                                THEN SplitSecond(attr, ":") ELSE attr)[1])

\* C10: parsing a well-formed document with an unresolvable input or output
\* returns a descriptor; every operation is in the list at its document position,
\* an unresolvable input or output is None and every other one is resolved.
C10_UnresolvedReference ==
    (Parsed /\ wsdl_content.wellformed
            /\ \E j \in DOMAIN OperationElements(wsdl_content) :
                   \/ Unresolvable(wsdl_content, OperationElements(wsdl_content)[j].inputs)
                   \/ Unresolvable(wsdl_content, OperationElements(wsdl_content)[j].outputs)) =>
        /\ wsdl_data.status = "ok"
        /\ Len(wsdl_data.operations) = Len(OperationElements(wsdl_content))
        /\ \A j \in DOMAIN wsdl_data.operations :
               LET element == OperationElements(wsdl_content)[j]
               IN  /\ wsdl_data.operations[j].name = element.name
                   /\ wsdl_data.operations[j].input = Resolved(wsdl_content, element.inputs)
                   /\ wsdl_data.operations[j].output = Resolved(wsdl_content, element.outputs)

\* the request has left nothing in the storage directory
NothingSaved(r) ==
    /\ requests[r].file_info = Nothing
    /\ \A ext \in {"json", "yaml", "wsdl"} : <<uuid4(r), ext>> \notin storage
    /\ metadata \in {Nothing, Truncated} \/ \A i \in DOMAIN metadata.files : metadata.files[i].id # uuid4(r)

FetchFailed(r) ==
    /\ requests[r].kind = "convert"
    /\ requests[r].pc = "done"
    /\ requests[r].input.kind = "wsdl_url"
    /\ requests[r].input.raised = "RequestException"

ParseFailed(r) ==
    /\ requests[r].kind = "convert"
    /\ requests[r].pc = "done"
    /\ requests[r].input.kind # "none"
    /\ requests[r].input.raised = ""
    /\ requests[r].input.content # EmptyText
    /\ parse_outcome(None, requests[r].input.content).status = "error"

\* C11: a /convert request whose URL fetch raised a request error is answered 400 with
\* the 'Failed to fetch WSDL from URL' message, one whose document parse rejected is
\* answered 500 with the 'Conversion failed' message, and neither saves a converted file.
C11_FailuresDistinguished ==
    \A r \in DOMAIN requests :
        /\ FetchFailed(r) =>
              /\ requests[r].response = [status |-> 400, error |-> "Failed to fetch WSDL from URL"]
              /\ NothingSaved(r)
        /\ ParseFailed(r) =>
              /\ requests[r].response = [status |-> 500, error |-> "Conversion failed"]
              /\ NothingSaved(r)

C11_Witness ==
    /\ \E r \in DOMAIN requests : FetchFailed(r)
    /\ \E r \in DOMAIN requests : ParseFailed(r) /\ ~requests[r].input.content.wellformed
    /\ storage # {}

\* the schema nodes of the document, schema by schema, in document order
TopLevelNodes(root) == Flatten(root.schemas)

\* the catalog entry of a schema node, by its kind
ParseNode(node) ==
    IF node.kind = "complexType" THEN parse_complex_type(node)
    ELSE IF node.kind = "simpleType" THEN parse_simple_type(node)
    ELSE parse_element(node)

\* the top-level schema nodes of that name, in document order
NodesNamed(root, name) == SelectSeq(TopLevelNodes(root), LAMBDA n : n.name = name)

\* C12: the type catalog has an entry for every named complex type, simple type and
\* top-level element and for nothing else, and each entry is the definition of the
\* last node of that name in document order, whatever its kind.
C12_CatalogLastInDocument ==
    ParsedOk =>
        /\ \A i \in DOMAIN wsdl_data.types :
               LET nodes == NodesNamed(wsdl_content, wsdl_data.types[i][1])
               IN  /\ Len(nodes) > 0
                   /\ wsdl_data.types[i][2] = ParseNode(nodes[Len(nodes)])
        /\ \A j \in DOMAIN TopLevelNodes(wsdl_content) :
               Truthy(TopLevelNodes(wsdl_content)[j].name) =>
                   HasKey(wsdl_data.types, TopLevelNodes(wsdl_content)[j].name)

\* the raw base or xml-type string of a catalog entry of a simple type or element
RawType(type_def) ==
    IF "base" \in DOMAIN type_def THEN type_def.base
    ELSE IF "xml_type" \in DOMAIN type_def THEN type_def.xml_type
    ELSE s_string

\* C13: the component schema of every simple-type or element entry of the catalog has
\* the type the scalar type mapper gives the entry's raw base or xml-type string.
C13_SimpleSchemaType ==
    Generated =>
        \A i \in DOMAIN wsdl_data.types :
            wsdl_data.types[i][2].type # s_object =>
                Get(swagger_spec.components.schemas, wsdl_data.types[i][1]).type
                    = map_type_to_openapi(RawType(wsdl_data.types[i][2])).type

\* the text of the first documentation element of the document, trimmed
ExpectedDescription(root) ==
    LET docs == all_documentation(root)
    IN  IF Len(docs) = 0 THEN s_DefaultDescription
        ELSE IF docs[1] = None THEN <<>>
        ELSE Strip(docs[1])

\* C14: the description is the trimmed text of the first documentation element of
\* the document, or the default literal when the document has none.
C14_Description ==
    ParsedOk => wsdl_data.description = ExpectedDescription(wsdl_content)

\* C15: what a parse call returns or raises on a parser that has parsed before is
\* what a new parser returns or raises for the same document.
C15_ParseIndependent ==
    Parsed => wsdl_data = parse_outcome(None, wsdl_content)

\* the ids metadata.json lists
Listed ==
    IF metadata \in {Nothing, Truncated} THEN {}
    ELSE {metadata.files[i].id : i \in DOMAIN metadata.files}

\* the ids a delete request has removed
Deleted ==
    {requests[r].file_id : r \in {q \in DOMAIN requests :
        requests[q].kind = "delete" /\ requests[q].pc = "done"
        /\ requests[q].response.status = 200}}

\* C16: once every request has finished, metadata.json lists every completed save
\* that was not deleted, and lists exactly the ids whose .json artifact exists.
C16_MetadataComplete ==
    Running = {} =>
        /\ Saved \ Deleted \subseteq Listed
        /\ Listed = {f[1] : f \in {g \in storage : g[2] = "json"}}

====
